---------------------------- MODULE Spec2Model ----------------------------
(***************************************************************************)
(* A model of the packet-generator configuration parser                    *)
(* examples/nffPktgen/generator/parseConfig.go.                            *)
(*                                                                         *)
(* The parser walks an untyped JSON tree (map[string]interface{},          *)
(* []interface{}, string, float64, bool).  Every builder is a loop over a  *)
(* Go map, whose iteration order is unspecified: the model visits the keys *)
(* of a block in every possible order.  A value of the wrong dynamic type  *)
(* makes a Go type assertion v.(T) panic; the model records that outcome   *)
(* as "panic", next to "ok" (value, nil error) and "err" (zero value,      *)
(* error).                                                                 *)
(*                                                                         *)
(* Each builder f is given by three definitions translated from its code:  *)
(*   fAcc        the locals before the loop,                               *)
(*   fStep       the loop body for one key (the set of its outcomes),      *)
(*   fFinish     the code after the loop.                                  *)
(* Parse(f, v) is the set of results f can return on input v over all      *)
(* visitation orders (the big-step semantics used for nested calls); the   *)
(* state machine below runs one builder key by key on an input drawn from  *)
(* a bounded set.                                                          *)
(***************************************************************************)
EXTENDS Integers, Sequences, FiniteSets, TLC

VARIABLES
    fn,       \* the builder that is running
    file,     \* the configuration document ParseConfig reads: NoFile for an inner builder
    input,    \* its argument: a JSON value
    visited,  \* the keys (or array indices) the range loop has visited, in order
    acc,      \* the builder's locals
    ret,      \* what the builder returned: None while it runs
    conv      \* how this build converts an out-of-range float64 to an unsigned integer

vars == <<fn, file, input, visited, acc, ret, conv>>

---------------------------------------------------------------------------
(* Bounds of the model. *)

\* The longest "flags" array drawn.
MaxFlags == 3
\* The most keys a top-level document holds.
MaxTopKeys == 2
\* The most entries of a "pdist" array drawn.
MaxPdist == 2

---------------------------------------------------------------------------
(* JSON values as encoding/json decodes them into interface{}. *)

\* A float64: n + 1/2 when half, else n.
Num(n) == [t |-> "num", n |-> n, half |-> FALSE]
NumHalf(n) == [t |-> "num", n |-> n, half |-> TRUE]
Str(s) == [t |-> "str", s |-> s]
Bool(b) == [t |-> "bool", b |-> b]
Map(f) == [t |-> "map", m |-> f]
Arr(q) == [t |-> "arr", a |-> q]

IsNum(v) == v.t = "num"
IsStr(v) == v.t = "str"
IsBool(v) == v.t = "bool"
IsMap(v) == v.t = "map"
IsArr(v) == v.t = "arr"

\* A document as the file holds it: the members of the root object in the
\* order they are written.
Obj(members) == [t |-> "object", members |-> members]
Member(k, v) == [key |-> k, value |-> v]
IsObj(v) == v.t = "object"
NoFile == [t |-> "none"]
\* var in map[string]interface{}, before Decode fills it.
NilMap == [t |-> "nil"]

EmptyMap == [k \in {} |-> Num(0)]
Range(q) == {q[i] : i \in DOMAIN q}

\* v < 0 and v > 1 on float64 values.
Negative(v) == v.n < 0
\* A variant that rejects the endpoint 1 as well.
AtLeastOne(v) == v.n >= 1
GreaterThanOne(v) == v.n > 1 \/ (v.n = 1 /\ v.half)
\* Go's float64 -> integer conversion truncates toward zero.
Trunc(v) == IF v.n < 0 /\ v.half THEN v.n + 1 ELSE v.n

---------------------------------------------------------------------------
(* Results of a builder. *)

None == [st |-> "none"]
Panic == [st |-> "panic"]
Ok(x) == [st |-> "ok", val |-> x]
Err(zero) == [st |-> "err", val |-> zero]

\* One pass of a loop body: go on with new locals, return, or tail-call.
Cont(a) == [kind |-> "cont", acc |-> a]
Ret(r) == [kind |-> "ret", res |-> r]
TailCall(f) == [kind |-> "tail", callee |-> f, x |-> TRUE]

NoLocals == [none |-> TRUE]

---------------------------------------------------------------------------
(* strings.ToLower on the strings of the model's alphabet. *)

ToLower(s) ==
    CASE s = "ETHER" -> "ether"
      [] s = "Ether" -> "ether"
      [] s = "MIX2" -> "mix2"
      [] s = "Q" -> "q"
      [] s = "Data" -> "data"
      [] s = "SIZE" -> "size"
      [] s = "Raw" -> "raw"
      [] s = "RandBytes" -> "randbytes"
      [] s = "MIN" -> "min"
      [] s = "Max" -> "max"
      [] s = "Range" -> "range"
      [] s = "IP" -> "ip"
      [] s = "SYN" -> "syn"
      [] s = "Ack" -> "ack"
      [] s = "RAND" -> "rand"
      [] OTHER -> s

\* mixPattern = ^mix[0-9]*$ on the (lower-cased) keys of the model's alphabet.
mixPattern(key) == key \in {"mix", "mix1", "mix2", "mix07"}

---------------------------------------------------------------------------
(* Numeric conversions. *)

\* uint16(f): exact in range; out of range the Go specification leaves the
\* result to the implementation: the low 16 bits (amd64) or the nearest end
\* of the range (arm64).
ToUint16(v) ==
    LET i == Trunc(v) IN
    IF i >= 0 /\ i <= 65535 THEN i
    ELSE IF conv = "wrap" THEN i % 65536
    ELSE IF i < 0 THEN 0 ELSE 65535

\* uint8(f), likewise.
ToUint8(v) ==
    LET i == Trunc(v) IN
    IF i >= 0 /\ i <= 255 THEN i
    ELSE IF conv = "wrap" THEN i % 256
    ELSE IF i < 0 THEN 0 ELSE 255

\* uint32(f), likewise.  The numbers the model draws are below 2^31 in
\* magnitude.  A uint32 of 2^31 or more is written as the negative integer
\* with the same 32 bits, x - 2^32, so the low 32 bits of a negative i are
\* written i, and a uint32 is zero exactly when it is written 0.
ToUint32(v) ==
    LET i == Trunc(v) IN
    IF i >= 0 THEN i
    ELSE IF conv = "wrap" THEN i
    ELSE 0
\* int(f): exact on the numbers the model draws.
ToInt(v) == Trunc(v)

RECURSIVE BitXor(_, _)
BitXor(a, b) ==
    IF a = 0 THEN b
    ELSE IF b = 0 THEN a
    ELSE (((a % 2) + (b % 2)) % 2) + (2 * BitXor(a \div 2, b \div 2))

\* big.NewInt(i).Bytes(): the absolute value as a minimal big-endian byte
\* sequence (empty for 0).
RECURSIVE BigBytes(_)
BigBytes(i) ==
    LET mag == IF i < 0 THEN -i ELSE i IN
    IF mag = 0 THEN <<>> ELSE Append(BigBytes(mag \div 256), (mag % 256))

\* bytes.Compare: lexicographic, a proper prefix is smaller.
RECURSIVE bytesCompare(_, _)
bytesCompare(a, b) ==
    IF a = <<>> /\ b = <<>> THEN 0
    ELSE IF a = <<>> THEN -1
    ELSE IF b = <<>> THEN 1
    ELSE IF Head(a) < Head(b) THEN -1
    ELSE IF Head(a) > Head(b) THEN 1
    ELSE bytesCompare(Tail(a), Tail(b))

---------------------------------------------------------------------------
(* The DataType tags and the structs' zero values. *)

ETHERHDR == 0
IPHDR == 1
TCPHDR == 2
UDPHDR == 3
ICMPHDR == 4
ARPHDR == 5
PDISTDATA == 6
RANDDATA == 7
RAWDATA == 8
NONE == 9

\* An unsafe.Pointer: nil, or the value it points to under the name of its type.
NilPtr == [nil |-> TRUE]

RawZero == [Data |-> ""]
RandBytesZero == [Size |-> 0, Deviation |-> 0]
PDistEntryZero == [Probability |-> Num(0), DType |-> 0, Data |-> NilPtr]
AddrRangeZero == [Min |-> <<>>, Max |-> <<>>, Current |-> <<>>, Incr |-> <<>>]
PortRangeZero == [Min |-> 0, Max |-> 0, Current |-> 0, Incr |-> 0]

RECURSIVE Parse(_, _)

---------------------------------------------------------------------------
(* parseRaw *)

parseRawAcc == NoLocals

parseRawStep(a, k, v) ==
    IF ToLower(k) = "data"
    THEN IF IsStr(v) THEN {Ret(Ok([Data |-> v.s]))} ELSE {Ret(Panic)}
    ELSE {Ret(Err(RawZero))}

parseRawFinish(a) == {Err(RawZero)}

---------------------------------------------------------------------------
(* parseRandBytes *)

parseRandBytesAcc == RandBytesZero

parseRandBytesStep(rBytes, k, v) ==
    CASE ToLower(k) = "size" ->
            IF ~IsNum(v) THEN {Ret(Panic)}
            ELSE IF Negative(v) THEN {Ret(Err(RandBytesZero))}
            ELSE {Cont([rBytes EXCEPT !.Size = ToUint32(v)])}
      [] ToLower(k) = "deviation" ->
            IF ~IsNum(v) THEN {Ret(Panic)}
            ELSE IF Negative(v) THEN {Ret(Err(RandBytesZero))}
            ELSE {Cont([rBytes EXCEPT !.Deviation = ToUint32(v)])}
      [] OTHER -> {Cont(rBytes)}

parseRandBytesFinish(rBytes) ==
    IF rBytes.Size < rBytes.Deviation THEN {Err(RandBytesZero)} ELSE {Ok(rBytes)}

---------------------------------------------------------------------------
(* parseTCPFlags and parseSeq *)

\* common.TCPFlagFin ... common.TCPFlagCwr: the bits of the TCP header's flag byte.
TCPFlag(name) ==
    CASE name = "fin" -> 1
      [] name = "syn" -> 2
      [] name = "rst" -> 4
      [] name = "psh" -> 8
      [] name = "ack" -> 16
      [] name = "urg" -> 32
      [] name = "ece" -> 64
      [] name = "cwr" -> 128

TCPFlagNames == {"fin", "syn", "rst", "psh", "ack", "urg", "ece", "cwr"}

parseTCPFlagsAcc == [flags |-> 0]

\* A variant that sets the bit (|=) where the code toggles it (^=).
parseTCPFlagsStepSets(a, i, flag) ==
    IF ~IsStr(flag) THEN {Ret(Panic)}
    ELSE IF ToLower(flag.s) \in TCPFlagNames
    THEN LET bit == TCPFlag(ToLower(flag.s)) IN
         {Cont([flags |-> IF (a.flags \div bit) % 2 = 1 THEN a.flags ELSE a.flags + bit])}
    ELSE {Ret(Err([flags |-> 0]))}

\* The loop body for one array element.
parseTCPFlagsStep(a, i, flag) ==
    IF ~IsStr(flag) THEN {Ret(Panic)}
    ELSE IF ToLower(flag.s) \in TCPFlagNames
    THEN {Cont([flags |-> BitXor(a.flags, TCPFlag(ToLower(flag.s)))])}
    ELSE {Ret(Err([flags |-> 0]))}

parseTCPFlagsFinish(a) == {Ok(a)}

RANDOM == 0
INCREASING == 1

\* The values rand.Uint32() is let to return.
RandUint32 == {0, 1}

SequenceZero == [Type |-> 0, Next |-> 0]

parseSeq(s) ==
    CASE ToLower(s) \in {"rand", "random"} ->
            {Ok([Type |-> RANDOM, Next |-> r]) : r \in RandUint32}
      [] ToLower(s) \in {"incr", "increasing"} ->
            {Ok([Type |-> INCREASING, Next |-> 0])}
      [] OTHER -> {Err(SequenceZero)}

---------------------------------------------------------------------------
(* Calls: "x, err := f(...); if err != nil { return Zero, wrapped }". *)

\* The step outcomes of the failure branch of a call with results rs: zero
\* and an error (or the panic goes on up).
Failed(rs, zero) ==
    {Ret(Panic) : r \in {x \in rs : x.st = "panic"}} \cup
    {Ret(Err(zero)) : r \in {x \in rs : x.st = "err"}}
\* The values a call with results rs can hand back with a nil error.
Values(rs) == {r.val : r \in {x \in rs : x.st = "ok"}}

\* The results of a function that returns what its callee returned, or zero
\* and an error.
Returned(rs, zero) ==
    { CASE r.st = "panic" -> Panic
        [] r.st = "err" -> Err(zero)
        [] r.st = "ok" -> Ok(r.val)
      : r \in rs }

---------------------------------------------------------------------------
(* Address texts: net.ParseMAC and net.ParseIP on the literals of the model. *)

Bytes(q) == [ok |-> TRUE, bytes |-> q]
NoBytes == [ok |-> FALSE, bytes |-> <<>>]

\* net.ParseMAC: 6, 8 or 20 octets, colon- or hyphen-separated.
parseRawMACAddr(rawAddr) ==
    CASE rawAddr = "00:00:00:00:00:01" -> Bytes(<<0, 0, 0, 0, 0, 1>>)
      [] rawAddr = "00:00:00:00:00:02" -> Bytes(<<0, 0, 0, 0, 0, 2>>)
      [] rawAddr = "00-00-00-00-00-02" -> Bytes(<<0, 0, 0, 0, 0, 2>>)
      [] rawAddr = "00:00:00:00:01:00" -> Bytes(<<0, 0, 0, 0, 1, 0>>)
      [] rawAddr = "00:00:00:00:00:01:00:00" -> Bytes(<<0, 0, 0, 0, 0, 1, 0, 0>>)
      [] OTHER -> NoBytes

\* net.ParseIP: always the 16-byte form, an IPv4 address as ::ffff:a.b.c.d.
parseRawIPAddr(rawAddr) ==
    CASE rawAddr = "10.0.0.1" ->
            Bytes(<<0, 0, 0, 0, 0, 0, 0, 0, 0, 0, 255, 255, 10, 0, 0, 1>>)
      [] rawAddr = "10.0.0.2" ->
            Bytes(<<0, 0, 0, 0, 0, 0, 0, 0, 0, 0, 255, 255, 10, 0, 0, 2>>)
      [] rawAddr = "::ffff:10.0.0.2" ->
            Bytes(<<0, 0, 0, 0, 0, 0, 0, 0, 0, 0, 255, 255, 10, 0, 0, 2>>)
      [] rawAddr = "10.0.1.0" ->
            Bytes(<<0, 0, 0, 0, 0, 0, 0, 0, 0, 0, 255, 255, 10, 0, 1, 0>>)
      [] rawAddr = "::1" ->
            Bytes(<<0, 0, 0, 0, 0, 0, 0, 0, 0, 0, 0, 0, 0, 0, 0, 1>>)
      [] OTHER -> NoBytes

\* The decoder a parseAddrRange call was given.
parseFunc(f, rawAddr) ==
    IF f = "parseAddrRange(parseRawMACAddr)" THEN parseRawMACAddr(rawAddr)
    ELSE parseRawIPAddr(rawAddr)

---------------------------------------------------------------------------
(* parseAddrRange *)

parseAddrRangeAcc ==
    [addr |-> AddrRangeZero, wasMin |-> FALSE, wasMax |-> FALSE,
     wasStart |-> FALSE, wasIncr |-> FALSE]

parseAddrRangeStep(f, a, k, v) ==
    CASE ToLower(k) = "min" ->
            IF ~IsStr(v) THEN {Ret(Panic)}
            ELSE IF ~parseFunc(f, v.s).ok THEN {Ret(Err(AddrRangeZero))}
            ELSE {Cont([a EXCEPT !.addr.Min = parseFunc(f, v.s).bytes,
                                 !.wasMin = TRUE])}
      [] ToLower(k) = "max" ->
            IF ~IsStr(v) THEN {Ret(Panic)}
            ELSE IF ~parseFunc(f, v.s).ok THEN {Ret(Err(AddrRangeZero))}
            ELSE {Cont([a EXCEPT !.addr.Max = parseFunc(f, v.s).bytes,
                                 !.wasMax = TRUE])}
      [] ToLower(k) = "start" ->
            IF ~IsStr(v) THEN {Ret(Panic)}
            ELSE IF ~parseFunc(f, v.s).ok THEN {Ret(Err(AddrRangeZero))}
            ELSE {Cont([a EXCEPT !.addr.Current = parseFunc(f, v.s).bytes,
                                 !.wasStart = TRUE])}
      [] ToLower(k) = "incr" ->
            IF ~IsNum(v) THEN {Ret(Panic)}
            ELSE {Cont([a EXCEPT !.addr.Incr = BigBytes(Trunc(v)),
                                 !.wasIncr = TRUE])}
      [] OTHER -> {Ret(Err(AddrRangeZero))}

\* A variant that forgets the explicit start.
addrWithStartAlwaysMin(a) == [a.addr EXCEPT !.Current = a.addr.Min]

\* The defaults applied after the loop.
addrWithStart(a) ==
    IF a.wasStart THEN a.addr ELSE [a.addr EXCEPT !.Current = a.addr.Min]
addrWithIncr(a, addr) ==
    IF a.wasIncr THEN addr ELSE [addr EXCEPT !.Incr = <<1>>]

parseAddrRangeFinish(a) ==
    IF ~a.wasMax \/ ~a.wasMin THEN {Err(AddrRangeZero)}
    ELSE IF bytesCompare(a.addr.Max, a.addr.Min) < 0 THEN {Err(AddrRangeZero)}
    ELSE LET addr == addrWithStart(a) IN
         IF \/ bytesCompare(addr.Current, addr.Min) < 0
            \/ bytesCompare(addr.Current, addr.Max) > 0
         THEN {Err(AddrRangeZero)}
         ELSE {Ok(addrWithIncr(a, addr))}

---------------------------------------------------------------------------
(* parsePortRange *)

parsePortRangeAcc ==
    [portRng |-> PortRangeZero, wasMin |-> FALSE, wasMax |-> FALSE,
     wasStart |-> FALSE, wasIncr |-> FALSE]

parsePortRangeStep(a, k, v) ==
    CASE ToLower(k) = "min" ->
            IF ~IsNum(v) THEN {Ret(Panic)}
            ELSE IF Negative(v) THEN {Ret(Err(PortRangeZero))}
            ELSE {Cont([a EXCEPT !.portRng.Min = ToUint16(v), !.wasMin = TRUE])}
      [] ToLower(k) = "max" ->
            IF ~IsNum(v) THEN {Ret(Panic)}
            ELSE IF Negative(v) THEN {Ret(Err(PortRangeZero))}
            ELSE {Cont([a EXCEPT !.portRng.Max = ToUint16(v), !.wasMax = TRUE])}
      [] ToLower(k) = "start" ->
            IF ~IsNum(v) THEN {Ret(Panic)}
            ELSE IF Negative(v) THEN {Ret(Err(PortRangeZero))}
            ELSE {Cont([a EXCEPT !.portRng.Current = ToUint16(v),
                                 !.wasStart = TRUE])}
      [] ToLower(k) = "incr" ->
            IF ~IsNum(v) THEN {Ret(Panic)}
            ELSE IF Negative(v) THEN {Ret(Err(PortRangeZero))}
            ELSE {Cont([a EXCEPT !.portRng.Incr = ToUint16(v), !.wasIncr = TRUE])}
      [] OTHER -> {Ret(Err(PortRangeZero))}

portWithStart(a) ==
    IF a.wasStart THEN a.portRng
    ELSE [a.portRng EXCEPT !.Current = a.portRng.Min]
portWithIncr(a, portRng) ==
    IF a.wasIncr THEN portRng ELSE [portRng EXCEPT !.Incr = 1]

parsePortRangeFinish(a) ==
    IF ~a.wasMax \/ ~a.wasMin THEN {Err(PortRangeZero)}
    ELSE IF a.portRng.Max < a.portRng.Min THEN {Err(PortRangeZero)}
    ELSE LET portRng == portWithStart(a) IN
         IF portRng.Current < portRng.Min \/ portRng.Current > portRng.Max
         THEN {Err(PortRangeZero)}
         ELSE {Ok(portWithIncr(a, portRng))}

---------------------------------------------------------------------------
(* parseMacAddr, parseIPAddr, parsePort: a bare scalar or {"range": {...}}. *)

\* The range builder an address builder hands its "range" block to.
rangeBuilder(f) ==
    IF f = "parseMacAddr" THEN "parseAddrRange(parseRawMACAddr)"
    ELSE "parseAddrRange(parseRawIPAddr)"

\* case map[string]interface{}: the loop body.
parseAddrStep(f, a, k, v) ==
    IF ToLower(k) = "range"
    THEN IF ~IsMap(v) THEN {Ret(Panic)}
         ELSE {Ret(r) : r \in Returned(Parse(rangeBuilder(f), v), AddrRangeZero)}
    ELSE {Ret(Err(AddrRangeZero))}

\* case string, and the fall-through "unknown type".
parseAddrFinish(f, a, value) ==
    IF IsStr(value)
    THEN LET saddr == IF f = "parseMacAddr" THEN parseRawMACAddr(value.s)
                      ELSE parseRawIPAddr(value.s) IN
         IF ~saddr.ok THEN {Err(AddrRangeZero)}
         ELSE {Ok([Min |-> saddr.bytes, Max |-> saddr.bytes,
                   Current |-> saddr.bytes, Incr |-> <<>>])}
    ELSE {Err(AddrRangeZero)}

parsePortStep(a, k, v) ==
    IF ToLower(k) = "range"
    THEN IF ~IsMap(v) THEN {Ret(Panic)}
         ELSE {Ret(r) : r \in Returned(Parse("parsePortRange", v), PortRangeZero)}
    ELSE {Ret(Err(PortRangeZero))}

parsePortFinish(a, value) ==
    IF IsNum(value)
    THEN IF Negative(value) THEN {Err(PortRangeZero)}
         ELSE {Ok([Min |-> ToUint16(value), Max |-> ToUint16(value),
                   Current |-> ToUint16(value), Incr |-> 0])}
    ELSE {Err(PortRangeZero)}

---------------------------------------------------------------------------
(* parsePdistEntry, parsePdist, parseData *)

parsePdistEntryAcc == PDistEntryZero

parsePdistEntryStep(pdistElem, k, v) ==
    CASE ToLower(k) = "probability" ->
            IF ~IsNum(v) THEN {Ret(Panic)}
            ELSE IF GreaterThanOne(v) \/ Negative(v) THEN {Ret(Err(PDistEntryZero))}
            ELSE {Cont([pdistElem EXCEPT !.Probability = v])}
      [] ToLower(k) = "raw" ->
            IF ~IsMap(v) THEN {Ret(Panic)}
            ELSE Failed(Parse("parseRaw", v), PDistEntryZero) \cup
                 {Cont([pdistElem EXCEPT !.Data = [Raw |-> data], !.DType = RAWDATA])
                    : data \in Values(Parse("parseRaw", v))}
      [] ToLower(k) = "randbytes" ->
            IF ~IsMap(v) THEN {Ret(Panic)}
            ELSE Failed(Parse("parseRandBytes", v), PDistEntryZero) \cup
                 {Cont([pdistElem EXCEPT !.Data = [RandBytes |-> randBytes],
                                         !.DType = RANDDATA])
                    : randBytes \in Values(Parse("parseRandBytes", v))}
      [] OTHER -> {Ret(Err(PDistEntryZero))}

parsePdistEntryFinish(pdistElem) == {Ok(pdistElem)}

PDistZero == [pdist |-> <<>>]

parsePdistAcc == PDistZero

\* The loop body for one array element.
parsePdistStep(a, i, v) ==
    IF ~IsMap(v) THEN {Ret(Panic)}
    ELSE Failed(Parse("parsePdistEntry", v), PDistZero) \cup
         {Cont([pdist |-> Append(a.pdist, pdistElem)])
            : pdistElem \in Values(Parse("parsePdistEntry", v))}

parsePdistFinish(a) == {Ok(a)}

\* parseData's results: the pointer and its tag.
DataZero == [Data |-> NilPtr, DType |-> NONE]

parseDataAcc == NoLocals

parseDataStep(a, k, v) ==
    CASE ToLower(k) = "raw" ->
            IF ~IsMap(v) THEN {Ret(Panic)}
            ELSE Failed(Parse("parseRaw", v), DataZero) \cup
                 {Ret(Ok([Data |-> [Raw |-> data], DType |-> RAWDATA]))
                    : data \in Values(Parse("parseRaw", v))}
      [] ToLower(k) = "randbytes" ->
            IF ~IsMap(v) THEN {Ret(Panic)}
            ELSE Failed(Parse("parseRandBytes", v), DataZero) \cup
                 {Ret(Ok([Data |-> [RandBytes |-> randBytes], DType |-> RANDDATA]))
                    : randBytes \in Values(Parse("parseRandBytes", v))}
      [] ToLower(k) = "pdist" ->
            IF ~IsArr(v) THEN {Ret(Panic)}
            ELSE Failed(Parse("parsePdist", v), DataZero) \cup
                 {Ret(Ok([Data |-> [PDist |-> pdist.pdist], DType |-> PDISTDATA]))
                    : pdist \in Values(Parse("parsePdist", v))}
      [] OTHER -> {Cont(a)}

parseDataFinish(a) == {Err(DataZero)}

\* parseData(map[string]interface{}{k: v}), as the header builders call it.
parseDataOf(k, v) == Parse("parseData", Map(k :> v))

---------------------------------------------------------------------------
(* The header builders. *)

\* EtherConfig{}, IPConfig{}, ... : what a builder returns beside an error.
EtherConfigZero ==
    [DAddr |-> AddrRangeZero, SAddr |-> AddrRangeZero, VLAN |-> NilPtr,
     DType |-> 0, Data |-> NilPtr]
IPConfigZero ==
    [Version |-> 0, SAddr |-> AddrRangeZero, DAddr |-> AddrRangeZero,
     DType |-> 0, Data |-> NilPtr]
ARPConfigZero ==
    [Operation |-> 0, Gratuitous |-> FALSE, SHA |-> AddrRangeZero,
     SPA |-> AddrRangeZero, THA |-> AddrRangeZero, TPA |-> AddrRangeZero]
TCPConfigZero ==
    [SPort |-> PortRangeZero, DPort |-> PortRangeZero, Seq |-> SequenceZero,
     Flags |-> 0, DType |-> 0, Data |-> NilPtr]
UDPConfigZero ==
    [SPort |-> PortRangeZero, DPort |-> PortRangeZero, DType |-> 0, Data |-> NilPtr]
ICMPConfigZero ==
    [Type |-> 0, Code |-> 0, Identifier |-> 0, Seq |-> SequenceZero,
     DType |-> 0, Data |-> NilPtr]

\* The default branch of a header builder: the key goes to parseData.
payloadStep(hdr, zero, k, v) ==
    Failed(parseDataOf(k, v), zero) \cup
    {Cont([hdr EXCEPT !.Data = d.Data, !.DType = d.DType]) : d \in Values(parseDataOf(k, v))}

parseEtherHdrAcc == [EtherConfigZero EXCEPT !.DType = NONE]

parseEtherHdrStep(ethConfig, k, v) ==
    CASE ToLower(k) = "saddr" ->
            Failed(Parse("parseMacAddr", v), EtherConfigZero) \cup
            {Cont([ethConfig EXCEPT !.SAddr = saddr]) : saddr \in Values(Parse("parseMacAddr", v))}
      [] ToLower(k) = "daddr" ->
            Failed(Parse("parseMacAddr", v), EtherConfigZero) \cup
            {Cont([ethConfig EXCEPT !.DAddr = daddr]) : daddr \in Values(Parse("parseMacAddr", v))}
      [] ToLower(k) = "vlan-tci" ->
            IF ~IsNum(v) THEN {Ret(Panic)}
            ELSE {Cont([ethConfig EXCEPT !.VLAN = [VlanTagConfig |-> [TCI |-> ToUint16(v)]]])}
      [] ToLower(k) = "ip" ->
            IF ~IsMap(v) THEN {Ret(Panic)}
            ELSE Failed(Parse("parseIPHdr", v), EtherConfigZero) \cup
                 {Cont([ethConfig EXCEPT !.Data = [IPConfig |-> ipConf], !.DType = IPHDR])
                    : ipConf \in Values(Parse("parseIPHdr", v))}
      [] ToLower(k) = "arp" ->
            IF ~IsMap(v) THEN {Ret(Panic)}
            ELSE Failed(Parse("parseARPHdr", v), EtherConfigZero) \cup
                 {Cont([ethConfig EXCEPT !.Data = [ARPConfig |-> arpConf], !.DType = ARPHDR])
                    : arpConf \in Values(Parse("parseARPHdr", v))}
      [] OTHER -> payloadStep(ethConfig, EtherConfigZero, k, v)

parseEtherHdrFinish(ethConfig) == {Ok(ethConfig)}

parseIPHdrAcc == [IPConfigZero EXCEPT !.Version = 4]

parseIPHdrStep(ipHdr, k, v) ==
    CASE ToLower(k) = "version" ->
            IF ~IsNum(v) THEN {Ret(Panic)}
            ELSE IF ToInt(v) # 4 /\ ToInt(v) # 6 THEN {Ret(Err(IPConfigZero))}
            ELSE {Cont([ipHdr EXCEPT !.Version = ToInt(v)])}
      [] ToLower(k) = "saddr" ->
            Failed(Parse("parseIPAddr", v), IPConfigZero) \cup
            {Cont([ipHdr EXCEPT !.SAddr = saddr]) : saddr \in Values(Parse("parseIPAddr", v))}
      [] ToLower(k) = "daddr" ->
            Failed(Parse("parseIPAddr", v), IPConfigZero) \cup
            {Cont([ipHdr EXCEPT !.DAddr = daddr]) : daddr \in Values(Parse("parseIPAddr", v))}
      [] ToLower(k) = "tcp" ->
            IF ~IsMap(v) THEN {Ret(Panic)}
            ELSE Failed(Parse("parseTCPHdr", v), IPConfigZero) \cup
                 {Cont([ipHdr EXCEPT !.Data = [TCPConfig |-> tcpConf], !.DType = TCPHDR])
                    : tcpConf \in Values(Parse("parseTCPHdr", v))}
      [] ToLower(k) = "udp" ->
            IF ~IsMap(v) THEN {Ret(Panic)}
            ELSE Failed(Parse("parseUDPHdr", v), IPConfigZero) \cup
                 {Cont([ipHdr EXCEPT !.Data = [UDPConfig |-> udpConf], !.DType = UDPHDR])
                    : udpConf \in Values(Parse("parseUDPHdr", v))}
      [] ToLower(k) = "icmp" ->
            IF ~IsMap(v) THEN {Ret(Panic)}
            ELSE Failed(Parse("parseICMPHdr", v), IPConfigZero) \cup
                 {Cont([ipHdr EXCEPT !.Data = [ICMPConfig |-> icmpConf], !.DType = ICMPHDR])
                    : icmpConf \in Values(Parse("parseICMPHdr", v))}
      [] OTHER -> payloadStep(ipHdr, IPConfigZero, k, v)

parseIPHdrFinish(ipHdr) == {Ok(ipHdr)}

parseARPHdrAcc == [ARPConfigZero EXCEPT !.Operation = 1]

\* opcode < 1 || opcode > 2 on a float64.
opcodeOutOfRange(v) == v.n < 1 \/ v.n > 2 \/ (v.n = 2 /\ v.half)

parseARPHdrStep(arpHdr, k, v) ==
    CASE ToLower(k) = "opcode" ->
            IF ~IsNum(v) THEN {Ret(Panic)}
            ELSE IF opcodeOutOfRange(v) THEN {Ret(Err(ARPConfigZero))}
            ELSE {Cont([arpHdr EXCEPT !.Operation = ToUint16(v)])}
      [] ToLower(k) = "gratuitous" ->
            IF ~IsBool(v) THEN {Ret(Panic)}
            ELSE {Cont([arpHdr EXCEPT !.Gratuitous = v.b])}
      [] ToLower(k) = "sha" ->
            Failed(Parse("parseMacAddr", v), ARPConfigZero) \cup
            {Cont([arpHdr EXCEPT !.SHA = sha]) : sha \in Values(Parse("parseMacAddr", v))}
      [] ToLower(k) = "spa" ->
            Failed(Parse("parseIPAddr", v), ARPConfigZero) \cup
            {Cont([arpHdr EXCEPT !.SPA = spa]) : spa \in Values(Parse("parseIPAddr", v))}
      [] ToLower(k) = "tha" ->
            Failed(Parse("parseMacAddr", v), ARPConfigZero) \cup
            {Cont([arpHdr EXCEPT !.THA = tha]) : tha \in Values(Parse("parseMacAddr", v))}
      [] ToLower(k) = "tpa" ->
            Failed(Parse("parseIPAddr", v), ARPConfigZero) \cup
            {Cont([arpHdr EXCEPT !.TPA = tpa]) : tpa \in Values(Parse("parseIPAddr", v))}
      [] OTHER -> {Ret(Err(ARPConfigZero))}

parseARPHdrFinish(arpHdr) == {Ok(arpHdr)}

parseTCPHdrAcc == TCPConfigZero

parseTCPHdrStep(tcpHdr, k, v) ==
    CASE ToLower(k) = "sport" ->
            Failed(Parse("parsePort", v), TCPConfigZero) \cup
            {Cont([tcpHdr EXCEPT !.SPort = sport]) : sport \in Values(Parse("parsePort", v))}
      [] ToLower(k) = "dport" ->
            Failed(Parse("parsePort", v), TCPConfigZero) \cup
            {Cont([tcpHdr EXCEPT !.DPort = dport]) : dport \in Values(Parse("parsePort", v))}
      [] ToLower(k) = "seq" ->
            IF ~IsStr(v) THEN {Ret(Panic)}
            ELSE Failed(parseSeq(v.s), TCPConfigZero) \cup
                 {Cont([tcpHdr EXCEPT !.Seq = seq]) : seq \in Values(parseSeq(v.s))}
      [] ToLower(k) = "flags" ->
            IF ~IsArr(v) THEN {Ret(Panic)}
            ELSE Failed(Parse("parseTCPFlags", v), TCPConfigZero) \cup
                 {Cont([tcpHdr EXCEPT !.Flags = flags.flags])
                    : flags \in Values(Parse("parseTCPFlags", v))}
      [] OTHER -> payloadStep(tcpHdr, TCPConfigZero, k, v)

parseTCPHdrFinish(tcpHdr) == {Ok(tcpHdr)}

parseUDPHdrAcc == UDPConfigZero

parseUDPHdrStep(udpHdr, k, v) ==
    CASE ToLower(k) = "sport" ->
            Failed(Parse("parsePort", v), UDPConfigZero) \cup
            {Cont([udpHdr EXCEPT !.SPort = sport]) : sport \in Values(Parse("parsePort", v))}
      [] ToLower(k) = "dport" ->
            Failed(Parse("parsePort", v), UDPConfigZero) \cup
            {Cont([udpHdr EXCEPT !.DPort = dport]) : dport \in Values(Parse("parsePort", v))}
      [] OTHER -> payloadStep(udpHdr, UDPConfigZero, k, v)

parseUDPHdrFinish(udpHdr) == {Ok(udpHdr)}

parseICMPHdrAcc == [ICMPConfigZero EXCEPT !.Data = [Raw |-> [Data |-> ""]]]

parseICMPHdrStep(icmpHdr, k, v) ==
    CASE ToLower(k) = "type" ->
            IF ~IsNum(v) THEN {Ret(Panic)}
            ELSE {Cont([icmpHdr EXCEPT !.Type = ToUint8(v)])}
      [] ToLower(k) = "code" ->
            IF ~IsNum(v) THEN {Ret(Panic)}
            ELSE {Cont([icmpHdr EXCEPT !.Code = ToUint8(v)])}
      [] ToLower(k) \in {"identifier", "id"} ->
            IF ~IsNum(v) THEN {Ret(Panic)}
            ELSE {Cont([icmpHdr EXCEPT !.Identifier = ToUint16(v)])}
      [] ToLower(k) \in {"seq", "seqnum"} ->
            IF ~IsStr(v) THEN {Ret(Panic)}
            ELSE Failed(parseSeq(v.s), ICMPConfigZero) \cup
                 {Cont([icmpHdr EXCEPT !.Seq = seq]) : seq \in Values(parseSeq(v.s))}
      [] OTHER -> payloadStep(icmpHdr, ICMPConfigZero, k, v)

parseICMPHdrFinish(icmpHdr) == {Ok(icmpHdr)}

---------------------------------------------------------------------------
(* The top level: ParseConfig and ParseMixConfig. *)

\* json.NewDecoder(r).Decode(&in): the members of the root object become a
\* map, a repeated key keeping the value written last.
Decode(doc) ==
    LET ms == doc.members
        last(k) == CHOOSE i \in DOMAIN ms :
                      /\ ms[i].key = k
                      /\ \A j \in DOMAIN ms : ms[j].key = k => j <= i
    IN  Map([k \in {ms[i].key : i \in DOMAIN ms} |-> ms[last(k)].value])

\* []*MixConfig: nil beside an error.
ConfigNil == [config |-> <<>>]
PacketConfig(ethHdr) == [PacketConfig |-> [Data |-> [EtherConfig |-> ethHdr], DType |-> ETHERHDR]]
MixConfig(pktConfig, q) == [Config |-> pktConfig, Quantity |-> q]

\* The inner loop of ParseMixConfig, over the keys of one mix unit.
mixUnitAcc == [pktConfig |-> NilPtr, q |-> 0]

mixUnitStep(a, kk, vv) ==
    CASE ToLower(kk) = "ether" ->
            IF ~IsMap(vv) THEN {Ret(Panic)}
            ELSE Failed(Parse("parseEtherHdr", vv), mixUnitAcc) \cup
                 {Cont([a EXCEPT !.pktConfig = PacketConfig(ethHdr)])
                    : ethHdr \in Values(Parse("parseEtherHdr", vv))}
      [] ToLower(kk) \in {"quantity", "q"} ->
            IF ~IsNum(vv) THEN {Ret(Panic)}
            ELSE {Cont([a EXCEPT !.q = ToUint32(vv)])}
      [] OTHER -> {Ret(Err(mixUnitAcc))}

mixUnitFinish(a) == {Ok(a)}

ParseMixConfigAcc == ConfigNil

ParseMixConfigStep(a, k, v) ==
    IF mixPattern(ToLower(k))
    THEN IF ~IsMap(v) THEN {Ret(Panic)}
         ELSE Failed(Parse("mixUnit", v), ConfigNil) \cup
              {IF u.q = 0 \/ u.pktConfig = NilPtr
               THEN Ret(Err(ConfigNil))
               ELSE Cont([config |-> Append(a.config, MixConfig(u.pktConfig, u.q))])
                 : u \in Values(Parse("mixUnit", v))}
    ELSE {Ret(Err(ConfigNil))}

ParseMixConfigFinish(a) == {Ok(a)}

ParseConfigAcc == ConfigNil

ParseConfigStep(a, k, v) ==
    CASE ToLower(k) = "ether" ->
            IF ~IsMap(v) THEN {Ret(Panic)}
            ELSE Failed(Parse("parseEtherHdr", v), ConfigNil) \cup
                 {Ret(Ok([config |-> Append(a.config, MixConfig(PacketConfig(ethHdr), 1))]))
                    : ethHdr \in Values(Parse("parseEtherHdr", v))}
      [] mixPattern(ToLower(k)) -> {TailCall("ParseMixConfig")}
      [] OTHER -> {Ret(Err(ConfigNil))}

ParseConfigFinish(a) == {Err(ConfigNil)}

---------------------------------------------------------------------------
(* Dispatch: the locals, loop body and epilogue of builder f. *)

AccOf(f) ==
    CASE f = "parseRaw" -> parseRawAcc
      [] f = "parseRandBytes" -> parseRandBytesAcc
      [] f = "parseTCPFlags" -> parseTCPFlagsAcc
      [] f = "parsePdistEntry" -> parsePdistEntryAcc
      [] f = "parsePdist" -> parsePdistAcc
      [] f \in {"parseData", "parseSeq"} -> NoLocals
      [] f = "ParseConfig" -> ParseConfigAcc
      [] f = "ParseMixConfig" -> ParseMixConfigAcc
      [] f = "mixUnit" -> mixUnitAcc
      [] f = "parseEtherHdr" -> parseEtherHdrAcc
      [] f = "parseIPHdr" -> parseIPHdrAcc
      [] f = "parseARPHdr" -> parseARPHdrAcc
      [] f = "parseTCPHdr" -> parseTCPHdrAcc
      [] f = "parseUDPHdr" -> parseUDPHdrAcc
      [] f = "parseICMPHdr" -> parseICMPHdrAcc
      [] f \in {"parseAddrRange(parseRawMACAddr)", "parseAddrRange(parseRawIPAddr)"}
            -> parseAddrRangeAcc
      [] f = "parsePortRange" -> parsePortRangeAcc
      [] f \in {"parseMacAddr", "parseIPAddr", "parsePort"} -> NoLocals

StepOf(f, a, k, v) ==
    CASE f = "parseRaw" -> parseRawStep(a, k, v)
      [] f = "parseRandBytes" -> parseRandBytesStep(a, k, v)
      [] f = "parseTCPFlags" -> parseTCPFlagsStep(a, k, v)
      [] f = "parsePdistEntry" -> parsePdistEntryStep(a, k, v)
      [] f = "parsePdist" -> parsePdistStep(a, k, v)
      [] f = "parseData" -> parseDataStep(a, k, v)
      [] f = "ParseConfig" -> ParseConfigStep(a, k, v)
      [] f = "ParseMixConfig" -> ParseMixConfigStep(a, k, v)
      [] f = "mixUnit" -> mixUnitStep(a, k, v)
      [] f = "parseEtherHdr" -> parseEtherHdrStep(a, k, v)
      [] f = "parseIPHdr" -> parseIPHdrStep(a, k, v)
      [] f = "parseARPHdr" -> parseARPHdrStep(a, k, v)
      [] f = "parseTCPHdr" -> parseTCPHdrStep(a, k, v)
      [] f = "parseUDPHdr" -> parseUDPHdrStep(a, k, v)
      [] f = "parseICMPHdr" -> parseICMPHdrStep(a, k, v)
      [] f \in {"parseAddrRange(parseRawMACAddr)", "parseAddrRange(parseRawIPAddr)"}
            -> parseAddrRangeStep(f, a, k, v)
      [] f = "parsePortRange" -> parsePortRangeStep(a, k, v)
      [] f \in {"parseMacAddr", "parseIPAddr"} -> parseAddrStep(f, a, k, v)
      [] f = "parsePort" -> parsePortStep(a, k, v)

FinishOf(f, a, v) ==
    CASE f = "parseRaw" -> parseRawFinish(a)
      [] f = "parseRandBytes" -> parseRandBytesFinish(a)
      [] f = "parseTCPFlags" -> parseTCPFlagsFinish(a)
      [] f = "parsePdistEntry" -> parsePdistEntryFinish(a)
      [] f = "parsePdist" -> parsePdistFinish(a)
      [] f = "parseData" -> parseDataFinish(a)
      [] f = "parseSeq" -> parseSeq(v.s)
      [] f = "ParseConfig" -> ParseConfigFinish(a)
      [] f = "ParseMixConfig" -> ParseMixConfigFinish(a)
      [] f = "mixUnit" -> mixUnitFinish(a)
      [] f = "parseEtherHdr" -> parseEtherHdrFinish(a)
      [] f = "parseIPHdr" -> parseIPHdrFinish(a)
      [] f = "parseARPHdr" -> parseARPHdrFinish(a)
      [] f = "parseTCPHdr" -> parseTCPHdrFinish(a)
      [] f = "parseUDPHdr" -> parseUDPHdrFinish(a)
      [] f = "parseICMPHdr" -> parseICMPHdrFinish(a)
      [] f \in {"parseAddrRange(parseRawMACAddr)", "parseAddrRange(parseRawIPAddr)"}
            -> parseAddrRangeFinish(a)
      [] f = "parsePortRange" -> parsePortRangeFinish(a)
      [] f \in {"parseMacAddr", "parseIPAddr"} -> parseAddrFinish(f, a, v)
      [] f = "parsePort" -> parsePortFinish(a, v)

\* What the range loop of builder f iterates over: the indices of the array
\* it was given, in ascending order; or the keys of a map, in any order.  A
\* type switch that matches no map has no loop.
ArrayBuilders == {"parseTCPFlags", "parsePdist"}
Items(f, v) ==
    IF f \in ArrayBuilders THEN DOMAIN v.a
    ELSE IF IsMap(v) THEN DOMAIN v.m ELSE {}
Item(f, v, k) == IF f \in ArrayBuilders THEN v.a[k] ELSE v.m[k]
NextItems(f, v, done) ==
    LET left == Items(f, v) \ done IN
    IF f \in ArrayBuilders THEN {i \in left : \A j \in left : i <= j} ELSE left

\* The results builder f can return from locals a with the items in done visited.
RECURSIVE Run(_, _, _, _)
Run(f, a, v, done) ==
    IF NextItems(f, v, done) = {} THEN FinishOf(f, a, v)
    ELSE UNION { UNION { CASE s.kind = "ret" -> {s.res}
                           [] s.kind = "cont" -> Run(f, s.acc, v, done \cup {k})
                           [] s.kind = "tail" -> Run(s.callee, AccOf(s.callee), v, {})
                         : s \in StepOf(f, a, k, Item(f, v, k)) }
                 : k \in NextItems(f, v, done) }

Parse(f, v) == Run(f, AccOf(f), v, {})

---------------------------------------------------------------------------
(* The state machine: one builder runs on one input, one key at a time. *)

\* The maps with keys among Keys and values among Vals.
MapsOver(Keys, Vals) == {Map(f) : f \in UNION {[S -> Vals] : S \in SUBSET Keys}}
\* The maps that give each key k of kv a value of kv[k], or leave it out.
RECURSIVE MapsBy(_)
MapsBy(kv) ==
    IF DOMAIN kv = {} THEN {EmptyMap}
    ELSE LET k == CHOOSE j \in DOMAIN kv : TRUE
             rest == MapsBy([j \in DOMAIN kv \ {k} |-> kv[j]])
         IN  rest \cup {(k :> v) @@ r : v \in kv[k], r \in rest}
\* The arrays of at most n elements of Vals.
ArraysOver(Vals, n) == {Arr(q) : q \in UNION {[1..k -> Vals] : k \in 0..n}}

Builds == {"wrap", "saturate"}

Start(f, Inputs, builds) ==
    /\ fn = f
    /\ file = NoFile
    /\ input \in Inputs
    /\ visited = <<>>
    /\ acc = AccOf(f)
    /\ ret = None
    /\ conv \in builds

\* One pass of the running builder's loop body, on a key not visited yet.
Visit ==
    /\ ret = None
    /\ \E k \in NextItems(fn, input, Range(visited)) :
         \E s \in StepOf(fn, acc, k, Item(fn, input, k)) :
            CASE s.kind = "ret" ->
                    /\ ret' = s.res
                    /\ visited' = Append(visited, k)
                    /\ UNCHANGED <<fn, acc>>
              [] s.kind = "cont" ->
                    /\ acc' = s.acc
                    /\ visited' = Append(visited, k)
                    /\ UNCHANGED <<fn, ret>>
              [] s.kind = "tail" ->
                    /\ fn' = s.callee
                    /\ acc' = AccOf(s.callee)
                    /\ visited' = <<>>
                    /\ UNCHANGED ret
    /\ UNCHANGED <<file, input, conv>>

\* The loop is over: the code after it returns.
Return ==
    /\ ret = None
    /\ NextItems(fn, input, Range(visited)) = {}
    /\ ret' \in FinishOf(fn, acc, input)
    /\ UNCHANGED <<fn, file, input, visited, acc, conv>>

Done == ret # None

---------------------------------------------------------------------------
(* Payloads: parseRaw, parseRandBytes, parsePdistEntry, parsePdist, parseData. *)

RawInputs == MapsOver({"data", "Data", "bogus"}, {Str("abc"), Num(1)})

RandBytesInputs ==
    MapsOver({"size", "deviation", "bogus"},
             {Num(-1), Num(0), Num(5), Num(10), Num(20), NumHalf(10), Str("x")})

\* A few raw and randbytes blocks to nest.
RawBlocks == {Map("data" :> Str("abc")), Map(("data" :> Str("abc")) @@ ("bogus" :> Num(1))),
              Map(EmptyMap), Str("x")}
RandBytesBlocks ==
    {Map(("size" :> Num(10)) @@ ("deviation" :> Num(5))),
     Map(("size" :> Num(10)) @@ ("deviation" :> Num(20))),
     Map(("size" :> Num(10)) @@ ("bogus" :> Num(1))),
     Map(EmptyMap)}
Probabilities == {Num(0), NumHalf(0), Num(1), NumHalf(1), Num(-1), Str("x")}

PdistEntryInputs ==
    {Map(f) : f \in MapsBy([k \in {"probability", "Raw", "randbytes", "bogus"} |->
        CASE k = "probability" -> Probabilities
          [] k = "Raw" -> RawBlocks
          [] k = "randbytes" -> RandBytesBlocks
          [] OTHER -> {Num(1)}])}

\* A few pdist entries to put in an array.
PdistEntries ==
    {Map(("probability" :> NumHalf(0)) @@ ("Raw" :> Map("data" :> Str("abc")))),
     Map(("probability" :> Num(1)) @@ ("randbytes" :> Map("size" :> Num(10)))),
     Map("probability" :> NumHalf(0)),
     Map(("probability" :> NumHalf(1)) @@ ("Raw" :> Map("data" :> Str("abc")))),
     Map(("probability" :> Num(0)) @@ ("randbytes" :> Map("size" :> Num(10)))),
     Map(("probability" :> Num(-1)) @@ ("Raw" :> Map("data" :> Str("abc")))),
     Str("x")}
PdistInputs == ArraysOver(PdistEntries, MaxPdist)

\* parseData is always called with a single key.
DataInputs ==
    {Map("Raw" :> v) : v \in RawBlocks} \cup
    {Map("RandBytes" :> v) : v \in RandBytesBlocks \cup {Num(1)}} \cup
    {Map("pdist" :> v) : v \in PdistInputs \cup {Map(EmptyMap)}} \cup
    {Map("bogus" :> Num(1)), Map("ip" :> Map(EmptyMap))}

parseRawVisit == fn = "parseRaw" /\ Visit
parseRawReturn == fn = "parseRaw" /\ Return
parseRandBytesVisit == fn = "parseRandBytes" /\ Visit
parseRandBytesReturn == fn = "parseRandBytes" /\ Return
parsePdistEntryVisit == fn = "parsePdistEntry" /\ Visit
parsePdistEntryReturn == fn = "parsePdistEntry" /\ Return
parsePdistVisit == fn = "parsePdist" /\ Visit
parsePdistReturn == fn = "parsePdist" /\ Return
parseDataVisit == fn = "parseData" /\ Visit
parseDataReturn == fn = "parseData" /\ Return

InitPayload ==
    \/ Start("parseRaw", RawInputs, {"wrap"})
    \/ Start("parseRandBytes", RandBytesInputs, {"wrap"})
    \/ Start("parsePdistEntry", PdistEntryInputs, {"wrap"})
    \/ Start("parsePdist", PdistInputs, {"wrap"})
    \/ Start("parseData", DataInputs, {"wrap"})

NextPayload ==
    \/ parseRawVisit
    \/ parseRawReturn
    \/ parseRandBytesVisit
    \/ parseRandBytesReturn
    \/ parsePdistEntryVisit
    \/ parsePdistEntryReturn
    \/ parsePdistVisit
    \/ parsePdistReturn
    \/ parseDataVisit
    \/ parseDataReturn

SpecPayload == InitPayload /\ [][NextPayload]_vars

---------------------------------------------------------------------------
(* TCP flags and sequence tokens: parseTCPFlags, parseSeq. *)

FlagTokens == {Str("fin"), Str("syn"), Str("SYN"), Str("ack"), Str("Ack"), Str("rst"),
               Str("psh"), Str("urg"), Str("ece"), Str("cwr"), Str("bogus"), Num(2)}
FlagsInputs == ArraysOver(FlagTokens, MaxFlags)
SeqInputs == {Str("rand"), Str("RAND"), Str("random"), Str("incr"), Str("increasing"),
              Str("bogus")}

parseTCPFlagsVisit == fn = "parseTCPFlags" /\ Visit
parseTCPFlagsReturn == fn = "parseTCPFlags" /\ Return
parseSeqReturn == fn = "parseSeq" /\ Return

InitFlags ==
    \/ Start("parseTCPFlags", FlagsInputs, {"wrap"})
    \/ Start("parseSeq", SeqInputs, {"wrap"})

NextFlags ==
    \/ parseTCPFlagsVisit
    \/ parseTCPFlagsReturn
    \/ parseSeqReturn

SpecFlags == InitFlags /\ [][NextFlags]_vars

---------------------------------------------------------------------------
(* Ranges: parseAddrRange with either decoder, parsePortRange. *)

MACTexts == {Str("00:00:00:00:00:01"), Str("00:00:00:00:00:02"),
             Str("00-00-00-00-00-02"), Str("00:00:00:00:00:01:00:00")}
IPTexts == {Str("10.0.0.1"), Str("10.0.0.2"), Str("::ffff:10.0.0.2"), Str("::1")}
IncrValues == {Num(0), Num(-3), Num(258), NumHalf(2), Str("x")}

AddrRangeBlocks(Texts) ==
    {Map(f) : f \in MapsBy([k \in {"min", "Max", "start", "incr", "step"} |->
        CASE k = "incr" -> IncrValues
          [] k = "step" -> {Num(1)}
          [] OTHER -> Texts \cup {Str("zz")}])}

PortValues == {Num(-1), Num(0), Num(80), Num(65535), Num(65536), Str("x")}

PortRangeBlocks ==
    {Map(f) : f \in MapsBy([k \in {"min", "Max", "start", "incr", "step"} |->
        CASE k = "incr" -> {Num(0), Num(2), Num(-1), Str("x")}
          [] k = "step" -> {Num(1)}
          [] OTHER -> PortValues])}

parseAddrRangeMACVisit == fn = "parseAddrRange(parseRawMACAddr)" /\ Visit
parseAddrRangeMACReturn == fn = "parseAddrRange(parseRawMACAddr)" /\ Return
parseAddrRangeIPVisit == fn = "parseAddrRange(parseRawIPAddr)" /\ Visit
parseAddrRangeIPReturn == fn = "parseAddrRange(parseRawIPAddr)" /\ Return
parsePortRangeVisit == fn = "parsePortRange" /\ Visit
parsePortRangeReturn == fn = "parsePortRange" /\ Return

InitRange ==
    \/ Start("parseAddrRange(parseRawMACAddr)", AddrRangeBlocks(MACTexts), {"wrap"})
    \/ Start("parseAddrRange(parseRawIPAddr)", AddrRangeBlocks(IPTexts), {"wrap"})
    \/ Start("parsePortRange", PortRangeBlocks, Builds)

NextRange ==
    \/ parseAddrRangeMACVisit
    \/ parseAddrRangeMACReturn
    \/ parseAddrRangeIPVisit
    \/ parseAddrRangeIPReturn
    \/ parsePortRangeVisit
    \/ parsePortRangeReturn

SpecRange == InitRange /\ [][NextRange]_vars

---------------------------------------------------------------------------
(* Documents: ParseConfig, and ParseMixConfig as ParseConfig calls it. *)

EtherBlocks ==
    {Map(EmptyMap),
     Map(("daddr" :> Str("00:00:00:00:00:01")) @@
         ("IP" :> Map(("version" :> Num(4)) @@ ("tcp" :> Map("dport" :> Num(80)))))),
     Map("randbytes" :> Map(("size" :> Num(10)) @@ ("bogus" :> Num(1)))),
     Map("bogus" :> Num(1)),
     Map("Raw" :> Map(("data" :> Str("abc")) @@ ("bogus" :> Num(1)))),
     Map("vlan-tci" :> Str("x")),
     Map(("bogus" :> Num(1)) @@ ("vlan-tci" :> Str("x"))),
     Map("ip" :> Map("udp" :> Map(("sport" :> Num(53)) @@ ("Bogus" :> Num(1))))),
     Str("x")}

MixUnits ==
    {Map(("ether" :> Map(EmptyMap)) @@ ("q" :> Num(1))),
     Map(("Ether" :> Map("vlan-tci" :> Num(5))) @@ ("quantity" :> Num(2))),
     Map(("ether" :> Map(EmptyMap)) @@ ("Q" :> Num(3))),
     Map("ether" :> Map(EmptyMap)),
     Map(("ether" :> Map(EmptyMap)) @@ ("q" :> Num(0))),
     Map(("ether" :> Map(EmptyMap)) @@ ("q" :> Num(-1))),
     Map("q" :> Num(1)),
     Map(("ether" :> Map("bogus" :> Num(1))) @@ ("q" :> Num(1))),
     Map(("ether" :> Map("vlan-tci" :> Str("x"))) @@ ("q" :> Num(1))),
     Map(("ether" :> Map(EmptyMap)) @@ ("q" :> Num(1)) @@ ("bogus" :> Num(1))),
     Str("x")}

TopMembers ==
    {Member(k, v) : k \in {"ether", "ETHER"}, v \in EtherBlocks} \cup
    {Member(k, v) : k \in {"mix", "mix1", "MIX2"}, v \in MixUnits} \cup
    {Member("foo", Num(1))}

\* The documents of at most MaxTopKeys members, no key written twice; and one
\* whose root is not an object.
Files ==
    {Obj(q) : q \in {m \in UNION {[1..n -> TopMembers] : n \in 0..MaxTopKeys} :
                        \A i, j \in DOMAIN m : m[i].key = m[j].key => i = j}}
    \cup {Arr(<<>>)}

InitTop ==
    /\ fn = "ParseConfig"
    /\ file \in Files
    /\ input = NilMap
    /\ visited = <<>>
    /\ acc = ParseConfigAcc
    /\ ret = None
    /\ conv \in Builds

\* The first statements of ParseConfig: decode the file into in, or return
\* the decoder's error.
ParseConfigDecode ==
    /\ fn = "ParseConfig"
    /\ input = NilMap
    /\ ret = None
    /\ IF IsObj(file)
       THEN input' = Decode(file) /\ UNCHANGED ret
       ELSE ret' = Err(ConfigNil) /\ UNCHANGED input
    /\ UNCHANGED <<fn, file, visited, acc, conv>>

ParseConfigVisit == fn = "ParseConfig" /\ IsMap(input) /\ Visit
ParseConfigReturn == fn = "ParseConfig" /\ IsMap(input) /\ Return
ParseMixConfigVisit == fn = "ParseMixConfig" /\ Visit
ParseMixConfigReturn == fn = "ParseMixConfig" /\ Return

NextTop ==
    \/ ParseConfigDecode
    \/ ParseConfigVisit
    \/ ParseConfigReturn
    \/ ParseMixConfigVisit
    \/ ParseMixConfigReturn

SpecTop == InitTop /\ [][NextTop]_vars

---------------------------------------------------------------------------
(* Vocabulary of the properties: a block's fields by lower-cased name.      *)

Has(blk, name) == \E k \in DOMAIN blk.m : ToLower(k) = name
Get(blk, name) == blk.m[CHOOSE k \in DOMAIN blk.m : ToLower(k) = name]
\* No two keys of the block are the same field.
NoDuplicateKeys(blk) ==
    \A j, k \in DOMAIN blk.m : ToLower(j) = ToLower(k) => j = k
\* Every key of the block is one of names.
KeysAmong(blk, names) == \A k \in DOMAIN blk.m : ToLower(k) \in names

IsAddrRange == fn \in {"parseAddrRange(parseRawMACAddr)", "parseAddrRange(parseRawIPAddr)"}
IsPortRange == fn = "parsePortRange"

\* a <= b for byte sequences of equal length read as big-endian integers.
LeqFixed(a, b) ==
    /\ Len(a) = Len(b)
    /\ \/ a = b
       \/ \E i \in 1..Len(a) : a[i] < b[i] /\ \A j \in 1..(i - 1) : a[j] = b[j]

\* The integer a big-endian byte sequence stands for.
RECURSIVE BigEndian(_)
BigEndian(q) ==
    IF q = <<>> THEN 0 ELSE (256 * BigEndian(SubSeq(q, 1, Len(q) - 1))) + q[Len(q)]
Abs(i) == IF i < 0 THEN -i ELSE i
\* q is the minimal big-endian form of the magnitude of integer i.
MinimalBytesOf(q, i) == BigEndian(q) = Abs(i) /\ (q = <<>> \/ q[1] # 0)

\* The decoded field of an address range block.
Decoded(name) == parseFunc(fn, Get(input, name).s).bytes
IsInteger(v) == IsNum(v) /\ ~v.half
IsUint16(v) == IsInteger(v) /\ v.n >= 0 /\ v.n <= 65535

\* An address range block of the grammar {min, max, start?, incr?} whose
\* texts decode, with min <= max and start in [min, max].
GoodAddrRange ==
    /\ KeysAmong(input, {"min", "max", "start", "incr"}) /\ NoDuplicateKeys(input)
    /\ Has(input, "min") /\ Has(input, "max")
    /\ \A name \in {"min", "max", "start"} :
          Has(input, name) =>
             IsStr(Get(input, name)) /\ parseFunc(fn, Get(input, name).s).ok
    /\ Has(input, "incr") => IsInteger(Get(input, "incr"))
    /\ LeqFixed(Decoded("min"), Decoded("max"))
    /\ Has(input, "start") =>
          LeqFixed(Decoded("min"), Decoded("start")) /\ LeqFixed(Decoded("start"), Decoded("max"))

\* The same for a port range block over 16-bit unsigned integers.
GoodPortRange ==
    /\ KeysAmong(input, {"min", "max", "start", "incr"}) /\ NoDuplicateKeys(input)
    /\ Has(input, "min") /\ Has(input, "max")
    /\ \A name \in {"min", "max", "start", "incr"} :
          Has(input, name) => IsUint16(Get(input, name))
    /\ Get(input, "min").n <= Get(input, "max").n
    /\ Has(input, "start") =>
          Get(input, "min").n <= Get(input, "start").n /\ Get(input, "start").n <= Get(input, "max").n

(* C6: for an address range block with min and max present, min <= max and  *)
(* start in [min, max] (or omitted), parseAddrRange succeeds with Min = min, *)
(* Max = max, Current = start (Min when start is omitted) and Incr the      *)
(* minimal big-endian bytes of the magnitude of incr (of 1 when incr is     *)
(* omitted); parsePortRange gives the same over 16-bit unsigned integers.   *)
C6_GoodRangeParses ==
    /\ (Done /\ IsAddrRange /\ GoodAddrRange) =>
          /\ ret.st = "ok"
          /\ ret.val.Min = Decoded("min")
          /\ ret.val.Max = Decoded("max")
          /\ ret.val.Current = IF Has(input, "start") THEN Decoded("start") ELSE Decoded("min")
          /\ MinimalBytesOf(ret.val.Incr, IF Has(input, "incr") THEN Get(input, "incr").n ELSE 1)
    /\ (Done /\ IsPortRange /\ GoodPortRange) =>
          /\ ret.st = "ok"
          /\ ret.val.Min = Get(input, "min").n
          /\ ret.val.Max = Get(input, "max").n
          /\ ret.val.Current = IF Has(input, "start") THEN Get(input, "start").n ELSE Get(input, "min").n
          /\ ret.val.Incr = IF Has(input, "incr") THEN Get(input, "incr").n ELSE 1

\* A MAC range with an explicit start above min and an explicit incr was built.
C6_Witness ==
    /\ Done /\ fn = "parseAddrRange(parseRawMACAddr)" /\ GoodAddrRange
    /\ Has(input, "start") /\ Has(input, "incr")
    /\ Decoded("start") # Decoded("min")
    /\ Get(input, "incr").n = 258
    /\ ret.st = "ok" /\ ret.val.Incr = <<1, 2>>

\* a < b on the float64 values a document carries.
NumLess(a, b) == a.n < b.n \/ (a.n = b.n /\ ~a.half /\ b.half)
\* a < b for byte sequences, in byte order.
BytesLess(a, b) ==
    \/ \E i \in 1..Len(a) : i <= Len(b) /\ a[i] < b[i] /\ \A j \in 1..(i - 1) : a[j] = b[j]
    \/ Len(a) < Len(b) /\ \A j \in 1..Len(a) : a[j] = b[j]

\* Every field of the address range block has the type the grammar gives it,
\* and its texts decode.
TypedAddrRange ==
    /\ \A name \in {"min", "max", "start"} :
          Has(input, name) =>
             IsStr(Get(input, name)) /\ parseFunc(fn, Get(input, name).s).ok
    /\ Has(input, "incr") => IsNum(Get(input, "incr"))
\* Every field of the port range block is a number.
TypedPortRange == \A k \in DOMAIN input.m : IsNum(input.m[k])

\* min or max is absent, or max < min, or an explicit start is outside [min, max].
IllFormedAddrRange ==
    \/ ~Has(input, "min")
    \/ ~Has(input, "max")
    \/ BytesLess(Decoded("max"), Decoded("min"))
    \/ Has(input, "start") /\
          (BytesLess(Decoded("start"), Decoded("min")) \/ BytesLess(Decoded("max"), Decoded("start")))
IllFormedPortRange ==
    \/ ~Has(input, "min")
    \/ ~Has(input, "max")
    \/ NumLess(Get(input, "max"), Get(input, "min"))
    \/ Has(input, "start") /\
          (NumLess(Get(input, "start"), Get(input, "min")) \/ NumLess(Get(input, "max"), Get(input, "start")))

(* C7: a range block in which min or max is absent, or max < min, or an     *)
(* explicit start lies outside [min, max], makes parseAddrRange and         *)
(* parsePortRange return an error and an empty range, for every numeric     *)
(* value of min, max and start (port values outside 0..65535 included).     *)
(* The blocks considered carry values of the grammar's types only.          *)
C7_IllFormedRangeRejected ==
    /\ (Done /\ IsAddrRange /\ NoDuplicateKeys(input) /\ TypedAddrRange /\ IllFormedAddrRange) =>
          ret = Err(AddrRangeZero)
    /\ (Done /\ IsPortRange /\ NoDuplicateKeys(input) /\ TypedPortRange /\ IllFormedPortRange) =>
          ret = Err(PortRangeZero)

\* The address half of C7 alone, which the code satisfies.
C7_AddrRangeRejected ==
    (Done /\ IsAddrRange /\ NoDuplicateKeys(input) /\ TypedAddrRange /\ IllFormedAddrRange) =>
        ret = Err(AddrRangeZero)

---------------------------------------------------------------------------
(* The grammar of a document: the keys each kind of block recognizes, and   *)
(* the kind of block a key's value is.                                      *)

PayloadKeys == {"raw", "randbytes", "pdist"}
RecognizedKeys(kind) ==
    CASE kind = "top" -> {"ether", "mix", "mix1", "mix2", "mix07"}
      [] kind = "mix" -> {"ether", "quantity", "q"}
      [] kind = "ether" -> {"saddr", "daddr", "vlan-tci", "ip", "arp"} \cup PayloadKeys
      [] kind = "ip" -> {"version", "saddr", "daddr", "tcp", "udp", "icmp"} \cup PayloadKeys
      [] kind = "arp" -> {"opcode", "gratuitous", "sha", "spa", "tha", "tpa"}
      [] kind = "tcp" -> {"sport", "dport", "seq", "flags"} \cup PayloadKeys
      [] kind = "udp" -> {"sport", "dport"} \cup PayloadKeys
      [] kind = "icmp" -> {"type", "code", "identifier", "id", "seq", "seqnum"} \cup PayloadKeys
      [] kind = "raw" -> {"data"}
      [] kind = "randbytes" -> {"size", "deviation"}
      [] kind = "pdistentry" -> {"probability", "raw", "randbytes"}
      [] kind = "addr" -> {"range"}
      [] kind = "port" -> {"range"}
      [] kind = "range" -> {"min", "max", "start", "incr"}
      [] OTHER -> {}
ChildKind(kind, name) ==
    CASE kind = "top" /\ name = "ether" -> "ether"
      [] kind = "top" -> "mix"
      [] name \in {"ether", "ip", "arp", "tcp", "udp", "icmp", "raw", "randbytes", "pdist",
                   "range"} -> name
      [] name \in {"saddr", "daddr", "sha", "spa", "tha", "tpa"} -> "addr"
      [] name \in {"sport", "dport"} -> "port"
      [] OTHER -> "scalar"

\* Some block of value v, a block of the given kind, holds a key that its
\* kind does not recognize.
RECURSIVE HasUnknownKey(_, _)
HasUnknownKey(kind, v) ==
    IF kind = "pdist"
    THEN IsArr(v) /\ \E i \in DOMAIN v.a : HasUnknownKey("pdistentry", v.a[i])
    ELSE /\ IsMap(v)
         /\ \E k \in DOMAIN v.m :
               \/ ToLower(k) \notin RecognizedKeys(kind)
               \/ HasUnknownKey(ChildKind(kind, ToLower(k)), v.m[k])

IsTop == fn \in {"ParseConfig", "ParseMixConfig"} /\ IsMap(input)
TopKeys == {ToLower(k) : k \in DOMAIN input.m}

(***************************************************************************)
(* C1: ParseConfig succeeds only when the top-level keys, compared          *)
(* case-insensitively, are the single key "ether" or one or more keys all   *)
(* matching mix[0-9]*; for every other key set it returns an error and no   *)
(* MixConfig, whatever order the keys are visited in.                       *)
(***************************************************************************)
C1_OnlyTwoTopLevelForms ==
    (Done /\ IsTop /\ ret.st = "ok") =>
        \/ TopKeys = {"ether"} /\ Cardinality(DOMAIN input.m) = 1
        \/ TopKeys # {} /\ \A k \in TopKeys : mixPattern(k)

(***************************************************************************)
(* C2: if a mix entry has a missing or zero quantity, or a missing ether    *)
(* block, or an ether block that fails to parse, ParseMixConfig returns an  *)
(* error and a nil MixConfig, however many sibling entries were processed   *)
(* before it.  The mix entries considered are all blocks.                   *)
(***************************************************************************)
EtherFails(unit) ==
    LET ether == Get(unit, "ether") IN
    ~IsMap(ether) \/ \A r \in Parse("parseEtherHdr", ether) : r.st # "ok"
QuantityOf(unit) == IF Has(unit, "q") THEN Get(unit, "q") ELSE Get(unit, "quantity")
BadUnit(unit) ==
    \/ ~Has(unit, "q") /\ ~Has(unit, "quantity")
    \/ (Has(unit, "q") \/ Has(unit, "quantity")) /\ QuantityOf(unit) = Num(0)
    \/ ~Has(unit, "ether")
    \/ Has(unit, "ether") /\ EtherFails(unit)
MixForm ==
    /\ fn = "ParseMixConfig"
    /\ \A k \in DOMAIN input.m : mixPattern(ToLower(k)) /\ IsMap(input.m[k])
SomeBadUnit == \E k \in DOMAIN input.m : BadUnit(input.m[k])

C2_MixAllOrNothing ==
    (Done /\ MixForm /\ SomeBadUnit) => ret = Err(ConfigNil)

\* The same, over the runs that return.
MixAllOrNothingUnlessPanic ==
    (Done /\ MixForm /\ SomeBadUnit /\ ret # Panic) => ret = Err(ConfigNil)

(***************************************************************************)
(* C3: if any block of the document holds a key that the block does not     *)
(* recognize, the parse does not succeed.  The documents considered have    *)
(* the single top-level key "ether", so that the unrecognized key is below  *)
(* the top level.                                                           *)
(***************************************************************************)
C3_UnknownKeyNeverAccepted ==
    (Done /\ IsTop /\ DOMAIN input.m = {"ether"} /\ HasUnknownKey("top", input)) =>
        ret.st # "ok"

(***************************************************************************)
(* C4: a builder yields the same outcome under every order in which the     *)
(* keys of its block can be visited, when no two keys of the block are the  *)
(* same field: here ParseConfig, whose outcome must be the only outcome     *)
(* that any visitation order of the same decoded document can produce.      *)
(***************************************************************************)
C4_OrderIndependent ==
    (Done /\ IsTop /\ NoDuplicateKeys(input)) => Parse("ParseConfig", input) = {ret}

(***************************************************************************)
(* C5: for the mix form, the MixConfig of a successful parse has one entry  *)
(* per top-level key, the i-th entry being the one built from the i-th key  *)
(* in the order the document writes them.                                   *)
(***************************************************************************)
EntriesOf(unit) == {MixConfig(u.pktConfig, u.q) : u \in Values(Parse("mixUnit", unit))}

C5_DocumentKeyOrder ==
    (Done /\ fn = "ParseMixConfig" /\ ret.st = "ok") =>
        /\ Len(ret.val.config) = Len(file.members)
        /\ \A i \in DOMAIN file.members :
              ret.val.config[i] \in EntriesOf(file.members[i].value)

(***************************************************************************)
(* C8: a randbytes block is accepted exactly when size is present and >= 0, *)
(* deviation (if present) is >= 0 and deviation <= size; the result then    *)
(* has Size = size and Deviation = deviation (0 if omitted).  The blocks    *)
(* considered hold whole numbers under the keys size and deviation only.    *)
(***************************************************************************)
PlainRandBytes ==
    /\ fn = "parseRandBytes"
    /\ KeysAmong(input, {"size", "deviation"})
    /\ \A k \in DOMAIN input.m : IsNum(input.m[k]) /\ ~input.m[k].half
GoodRandBytes ==
    /\ Has(input, "size") /\ Get(input, "size").n >= 0
    /\ Has(input, "deviation") =>
          /\ Get(input, "deviation").n >= 0
          /\ Get(input, "deviation").n <= Get(input, "size").n

C8_RandBytesAcceptedIffWellFormed ==
    (Done /\ PlainRandBytes) =>
        IF GoodRandBytes
        THEN ret = Ok([Size |-> Get(input, "size").n,
                       Deviation |-> IF Has(input, "deviation")
                                     THEN Get(input, "deviation").n ELSE 0])
        ELSE ret = Err(RandBytesZero)

(***************************************************************************)
(* C9: parseTCPFlags toggles: for an array of tokens that are all flag      *)
(* names, in any case, the result has a flag's bit set exactly when the     *)
(* flag occurs an odd number of times in the array, and no other bit; an    *)
(* array of strings with a token that is no flag name yields an error and   *)
(* the flag value 0.                                                        *)
(***************************************************************************)
Tokens == {ToLower(input.a[i].s) : i \in DOMAIN input.a}
Occurrences(name) == Cardinality({i \in DOMAIN input.a : ToLower(input.a[i].s) = name})
BitSet(flags, name) == (flags \div TCPFlag(name)) % 2 = 1
AllStrings == \A i \in DOMAIN input.a : IsStr(input.a[i])

C9_FlagsToggle ==
    (Done /\ fn = "parseTCPFlags" /\ AllStrings) =>
        IF Tokens \subseteq TCPFlagNames
        THEN /\ ret.st = "ok"
             /\ ret.val.flags \in 0..255
             /\ \A name \in TCPFlagNames :
                   BitSet(ret.val.flags, name) <=> Occurrences(name) % 2 = 1
        ELSE ret = Err([flags |-> 0])

\* ["syn", "Ack", "SYN"]: syn cancels, ack stays.
C9_Witness ==
    /\ Done /\ fn = "parseTCPFlags"
    /\ input = Arr(<<Str("syn"), Str("Ack"), Str("SYN")>>)
    /\ ret = Ok([flags |-> TCPFlag("ack")])

(***************************************************************************)
(* C10: every pdist entry that parsePdistEntry accepts carries exactly one  *)
(* of raw and randbytes, and its tag is RAWDATA or RANDDATA, matching the   *)
(* payload it owns.                                                         *)
(***************************************************************************)
C10_ExactlyOnePayload ==
    (Done /\ fn = "parsePdistEntry" /\ ret.st = "ok") =>
        \/ /\ Has(input, "raw") /\ ~Has(input, "randbytes")
           /\ ret.val.DType = RAWDATA
           /\ ret.val.Data \in {[Raw |-> r] : r \in Values(Parse("parseRaw", Get(input, "raw")))}
        \/ /\ Has(input, "randbytes") /\ ~Has(input, "raw")
           /\ ret.val.DType = RANDDATA
           /\ ret.val.Data \in {[RandBytes |-> r]
                                  : r \in Values(Parse("parseRandBytes", Get(input, "randbytes")))}

(***************************************************************************)
(* C11: a pdist entry whose probability is outside [0, 1] makes             *)
(* parsePdistEntry and parsePdist fail; an entry with probability exactly 0 *)
(* or exactly 1 is accepted; and a pdist all of whose entries are           *)
(* acceptable is accepted whatever its probabilities sum to.  The failure   *)
(* is a returned error when the values of the entries have the shapes the   *)
(* grammar names.                                                           *)
(***************************************************************************)
TypedRaw(blk) == IsMap(blk) /\ \A k \in DOMAIN blk.m : ToLower(k) = "data" => IsStr(blk.m[k])
TypedRandBytes(blk) ==
    IsMap(blk) /\ \A k \in DOMAIN blk.m : ToLower(k) \in {"size", "deviation"} => IsNum(blk.m[k])
TypedEntry(e) ==
    /\ IsMap(e)
    /\ NoDuplicateKeys(e)
    /\ Has(e, "probability") => IsNum(Get(e, "probability"))
    /\ Has(e, "raw") => TypedRaw(Get(e, "raw"))
    /\ Has(e, "randbytes") => TypedRandBytes(Get(e, "randbytes"))
OutsideUnit(v) == v.n < 0 \/ v.n > 1 \/ (v.n = 1 /\ v.half)
BadProbability(e) ==
    /\ IsMap(e) /\ NoDuplicateKeys(e) /\ Has(e, "probability")
    /\ IsNum(Get(e, "probability")) /\ OutsideUnit(Get(e, "probability"))
AlwaysParses(f, blk) == \A r \in Parse(f, blk) : r.st = "ok"
\* Nothing but the probability could make the entry fail.
AcceptableEntry(e) ==
    /\ TypedEntry(e)
    /\ KeysAmong(e, {"probability", "raw", "randbytes"})
    /\ ~BadProbability(e)
    /\ Has(e, "raw") => AlwaysParses("parseRaw", Get(e, "raw"))
    /\ Has(e, "randbytes") => AlwaysParses("parseRandBytes", Get(e, "randbytes"))

C11_ProbabilityInUnitInterval ==
    /\ (Done /\ fn = "parsePdistEntry" /\ BadProbability(input)) => ret.st # "ok"
    /\ (Done /\ fn = "parsePdist" /\ \E i \in DOMAIN input.a : BadProbability(input.a[i])) =>
          ret.st # "ok"
    /\ (Done /\ fn = "parsePdistEntry" /\ TypedEntry(input)) =>
          /\ BadProbability(input) => ret = Err(PDistEntryZero)
          /\ AcceptableEntry(input) =>
                /\ ret.st = "ok"
                /\ Has(input, "probability") => ret.val.Probability = Get(input, "probability")
    /\ (Done /\ fn = "parsePdist" /\ \A i \in DOMAIN input.a : TypedEntry(input.a[i])) =>
          /\ (\E i \in DOMAIN input.a : BadProbability(input.a[i])) => ret = Err(PDistZero)
          /\ (\A i \in DOMAIN input.a : AcceptableEntry(input.a[i])) =>
                /\ ret.st = "ok"
                /\ Len(ret.val.pdist) = Len(input.a)
                /\ \A i \in DOMAIN input.a :
                      Has(input.a[i], "probability") =>
                         ret.val.pdist[i].Probability = Get(input.a[i], "probability")

\* Two entries of probability 1: the sum is 2.
C11_Witness ==
    /\ Done /\ fn = "parsePdist"
    /\ Len(input.a) = 2
    /\ \A i \in DOMAIN input.a :
          /\ AcceptableEntry(input.a[i])
          /\ Has(input.a[i], "probability")
          /\ Get(input.a[i], "probability") = Num(1)
    /\ ret.st = "ok"
    /\ Len(ret.val.pdist) = 2

(***************************************************************************)
(* C12: a value of the wrong shape, at any nesting level, is reported as an *)
(* error returned to the caller of ParseConfig: the parse ends in a         *)
(* returned MixConfig or a returned error, never in a panic.                *)
(***************************************************************************)
C12_NoPanic ==
    (Done /\ fn \in {"ParseConfig", "ParseMixConfig"}) => ret.st \in {"ok", "err"}

(***************************************************************************)
(* C13: in every header of a successfully parsed MixConfig (Ethernet, Ip,   *)
(* Tcp, Udp, Icmp) the child tag and the child agree: with no child the tag *)
(* is NONE and the child reference is empty; with a child the tag names the *)
(* kind of value the child reference holds.  This holds in particular for   *)
(* blocks with no nested-protocol or payload key.                           *)
(***************************************************************************)
\* The tag that names what a child reference holds.
TagOf(ptr) ==
    CASE DOMAIN ptr = {"nil"} -> NONE
      [] DOMAIN ptr = {"IPConfig"} -> IPHDR
      [] DOMAIN ptr = {"ARPConfig"} -> ARPHDR
      [] DOMAIN ptr = {"TCPConfig"} -> TCPHDR
      [] DOMAIN ptr = {"UDPConfig"} -> UDPHDR
      [] DOMAIN ptr = {"ICMPConfig"} -> ICMPHDR
      [] DOMAIN ptr = {"Raw"} -> RAWDATA
      [] DOMAIN ptr = {"RandBytes"} -> RANDDATA
      [] DOMAIN ptr = {"PDist"} -> PDISTDATA
HeaderKinds == {"IPConfig", "TCPConfig", "UDPConfig", "ICMPConfig"}

RECURSIVE TagsAgree(_)
TagsAgree(hdr) ==
    /\ hdr.DType = TagOf(hdr.Data)
    /\ \A kind \in DOMAIN hdr.Data \cap HeaderKinds : TagsAgree(hdr.Data[kind])

RootOf(entry) == entry.Config.PacketConfig.Data.EtherConfig

C13_TagMatchesChild ==
    (Done /\ fn \in {"ParseConfig", "ParseMixConfig"} /\ ret.st = "ok") =>
        \A i \in DOMAIN ret.val.config : TagsAgree(RootOf(ret.val.config[i]))

(***************************************************************************)
(* C14: every range a range builder returns satisfies Min <= Max and        *)
(* Min <= Current <= Max; in an address range Min, Max and Current are byte *)
(* sequences of equal length, ordered as fixed-length integers.             *)
(***************************************************************************)
C14_RangeInvariant ==
    /\ (Done /\ IsAddrRange /\ ret.st = "ok") =>
          /\ LeqFixed(ret.val.Min, ret.val.Max)
          /\ LeqFixed(ret.val.Min, ret.val.Current)
          /\ LeqFixed(ret.val.Current, ret.val.Max)
    /\ (Done /\ IsPortRange /\ ret.st = "ok") =>
          /\ ret.val.Min <= ret.val.Max
          /\ ret.val.Min <= ret.val.Current
          /\ ret.val.Current <= ret.val.Max

\* The port half alone.
PortRangeInvariant ==
    (Done /\ IsPortRange /\ ret.st = "ok") =>
        /\ ret.val.Min <= ret.val.Max
        /\ ret.val.Min <= ret.val.Current
        /\ ret.val.Current <= ret.val.Max

(***************************************************************************)
(* C15: in parseEtherHdr, parseIPHdr, parseTCPHdr, parseUDPHdr and          *)
(* parseICMPHdr a key that is neither a header field nor a nested-protocol  *)
(* key goes to parseData, which recognizes raw, randbytes and pdist only,   *)
(* in any case; any other key makes parseData, the builder and the whole    *)
(* parse return an error, in every visitation order.                        *)
(***************************************************************************)
\* A header block of value v holds a key that is no header field, no
\* nested-protocol key and no payload key.
RECURSIVE HeaderHasUnknownKey(_, _)
HeaderHasUnknownKey(kind, v) ==
    /\ IsMap(v)
    /\ \E k \in DOMAIN v.m :
          \/ ToLower(k) \notin RecognizedKeys(kind)
          \/ /\ ToLower(k) \in {"ip", "tcp", "udp", "icmp"}
             /\ HeaderHasUnknownKey(ToLower(k), v.m[k])

EtherFormWithUnknownKey ==
    /\ Done /\ fn = "ParseConfig" /\ IsMap(input)
    /\ DOMAIN input.m = {"ether"}
    /\ HeaderHasUnknownKey("ether", input.m["ether"])

C15_UnknownHeaderKeyIsError == EtherFormWithUnknownKey => ret = Err(ConfigNil)

\* The same, over the runs that return.
UnknownHeaderKeyIsErrorUnlessPanic ==
    (EtherFormWithUnknownKey /\ ret # Panic) => ret = Err(ConfigNil)

\* parseData on its own: one key, an error unless it is a payload key.
ParseDataRejectsOtherKeys ==
    (Done /\ fn = "parseData" /\ \A k \in DOMAIN input.m : ToLower(k) \notin PayloadKeys) =>
        ret = Err(DataZero)

(***************************************************************************)
(* C16: every entry of the MixConfig of a successful ParseConfig has a      *)
(* quantity above 0 and an Ethernet root; the "ether" form yields exactly   *)
(* one entry, with quantity 1; the mix form yields exactly one entry per    *)
(* top-level key, each with the quantity its own block gives.               *)
(***************************************************************************)
\* The uint32 x is the number n (a uint32 written as a negative integer is
\* 2^31 or more, above every number a document of the model gives).
Uint32Is(x, n) == x >= 0 /\ x = n
EthernetRoot(entry) ==
    /\ entry.Config.PacketConfig.DType = ETHERHDR
    /\ DOMAIN entry.Config.PacketConfig.Data = {"EtherConfig"}
GivenQuantity(unit) == QuantityOf(unit)

C16_EntriesWellFormed ==
    (Done /\ fn \in {"ParseConfig", "ParseMixConfig"} /\ ret.st = "ok") =>
        LET config == ret.val.config IN
        /\ \A i \in DOMAIN config : config[i].Quantity # 0 /\ EthernetRoot(config[i])
        /\ fn = "ParseConfig" => Len(config) = 1 /\ Uint32Is(config[1].Quantity, 1)
        /\ fn = "ParseMixConfig" =>
              /\ Len(config) = Cardinality(DOMAIN input.m)
              /\ Len(config) = Len(visited)
              /\ \A i \in DOMAIN config :
                    LET given == GivenQuantity(input.m[visited[i]]) IN
                    ~given.half /\ Uint32Is(config[i].Quantity, given.n)

\* The same, for documents whose quantities are all above 0.
EntriesWellFormedForPositiveQuantities ==
    (Done /\ fn \in {"ParseConfig", "ParseMixConfig"} /\ ret.st = "ok") =>
        LET config == ret.val.config IN
        /\ \A i \in DOMAIN config : config[i].Quantity # 0 /\ EthernetRoot(config[i])
        /\ fn = "ParseConfig" => Len(config) = 1 /\ Uint32Is(config[1].Quantity, 1)
        /\ (fn = "ParseMixConfig" /\ \A k \in DOMAIN input.m : GivenQuantity(input.m[k]).n > 0) =>
              /\ Len(config) = Cardinality(DOMAIN input.m)
              /\ Len(config) = Len(visited)
              /\ \A i \in DOMAIN config :
                    LET given == GivenQuantity(input.m[visited[i]]) IN
                    ~given.half /\ Uint32Is(config[i].Quantity, given.n)

===========================================================================
